---- MODULE Spec2Model ----
(***************************************************************************)
(* Entity/content store of app.py: the index_entries and list_contents     *)
(* tables, the handlers that create, update and delete entities, and the   *)
(* GET /index change feed.                                                 *)
(*                                                                         *)
(* Handlers of two workers interleave.  A mutating handler first reads the *)
(* clock (now = utcnow()) and, for an appending create, the current max    *)
(* order; later it issues its statements and commits, which takes effect   *)
(* as one step.  DELETE is one statement plus commit: one step.            *)
(*                                                                         *)
(* The database is the one DATABASE_URL names: PostgreSQL, which enforces  *)
(* the declared foreign keys and their ON DELETE CASCADE, or the default   *)
(* sqlite:///local.db, whose connections are opened without                *)
(* PRAGMA foreign_keys=ON, so the foreign keys are not enforced there.     *)
(***************************************************************************)
EXTENDS Integers, Sequences, FiniteSets, TLC

\* ---------------------------------------------------------------- bounds
MaxIds == 2        \* uuids handed out
MaxTime == 2       \* last clock value
MaxOrder == 1      \* largest order value stored or sent
MaxReqs == 3       \* mutating requests served

\* ------------------------------------------------------------- constants
NULL == 0          \* SQL NULL / Python None in an id-valued column

Ids == 1..MaxIds
OrderInputs == 0..MaxOrder
Workers == {"w1", "w2"}

Kinds == {"project", "process", "list"}
ContainerKinds == {"project", "process"}
\* project and process are treated alike on every line; "topic" is no kind
KindInputs == {"project", "list", "topic"}
NoEmoji == "None"
DefaultColor == "0xFF6AA6FF"
EmptyContent == "{}"
Dialects == {"postgresql", "sqlite"}

VARIABLES
    dialect,   \* database behind DATABASE_URL
    idx,       \* index_entries: id -> row
    lc,        \* list_contents: id -> row
    clock,     \* utcnow()
    nextId,    \* next uuid4
    req,       \* per worker: the handler in flight and its locals
    last,      \* the request answered last and its response
    stamp,     \* id -> latest timestamp of a successful mutation of the stored entity
    nreq,      \* mutating requests begun so far
    appended   \* stored ids whose current order came from _next_order_for_container

vars == <<dialect, idx, lc, clock, nextId, req, last, stamp, nreq, appended>>

\* ----------------------------------------------------------------- rows
IndexEntry(kind, container_id, name, emoji, color, order, opened_at, updated_at) ==
    [kind |-> kind, container_id |-> container_id, name |-> name, emoji |-> emoji,
     color |-> color, order |-> order, opened_at |-> opened_at, updated_at |-> updated_at]

ListContent(container_id, order, content_json, updated_at) ==
    [container_id |-> container_id, order |-> order, content_json |-> content_json,
     updated_at |-> updated_at]

ForeignKeys == dialect = "postgresql"

Max(S) == CHOOSE m \in S : \A x \in S : x <= m

NextOrderCountsSiblings(rows, container_id) ==
    Cardinality({j \in DOMAIN rows : rows[j].container_id = container_id})

\* coalesce(max(order), -1) + 1 over the rows with the same container_id
_next_order_for_container(rows, container_id) ==
    LET sib == {rows[i].order : i \in {j \in DOMAIN rows : rows[j].container_id = container_id}}
        max_ord == IF sib = {} THEN -1 ELSE Max(sib)
    IN  max_ord + 1

UniqueOrderViolation(rows, container_id, order) ==
    \E i \in DOMAIN rows : rows[i].container_id = container_id /\ rows[i].order = order

\* the order column carries a plain index, no unique constraint: an insert is
\* never refused for repeating a sibling's order
OrderConflict(rows, container_id, order) == FALSE

\* the two rows create_entity adds to the session
NewIndexEntry(r, name, emoji, color) ==
    IndexEntry(r.kind, r.container_id, name, emoji, color, r.order, r.now, r.now)

NewListContent(r, content_json) ==
    ListContent(r.container_id, r.order, content_json, r.now)

\* update_content's writes to the list_contents row
ContentRow(row, now, content_json, has_order, order) ==
    [row EXCEPT !.content_json = content_json, !.updated_at = now,
                !.order = IF has_order THEN order ELSE @]

ContentIndexRowKeepsOrder(e, now, has_order, order) ==
    [e EXCEPT !.updated_at = now]

ContentIndexRowMarksOpened(e, now, has_order, order) ==
    [e EXCEPT !.order = IF has_order THEN order ELSE @, !.updated_at = now,
              !.opened_at = now]

\* update_content's writes to the index_entries row
ContentIndexRow(e, now, has_order, order) ==
    [e EXCEPT !.order = IF has_order THEN order ELSE @, !.updated_at = now]

Absent == "absent"
EmptyBody == [name |-> Absent, emoji |-> Absent, color |-> Absent,
              mark_opened |-> FALSE, has_order |-> FALSE, order |-> 0]
\* request bodies of PUT /entities/<id>: no key, one key, or name with order
MetaBodies ==
    {EmptyBody, [EmptyBody EXCEPT !.name = "b"], [EmptyBody EXCEPT !.emoji = "e"],
     [EmptyBody EXCEPT !.color = "0xFF000000"], [EmptyBody EXCEPT !.mark_opened = TRUE]}
    \cup {[EmptyBody EXCEPT !.has_order = TRUE, !.order = o] : o \in OrderInputs}

\* the updates dict of update_entity_meta applied to the index_entries row
MetaRow(e, now, d) ==
    [e EXCEPT !.name = IF d.name # Absent THEN d.name ELSE @,
              !.emoji = IF d.emoji # Absent THEN d.emoji ELSE @,
              !.color = IF d.color # Absent THEN d.color ELSE @,
              !.opened_at = IF d.mark_opened THEN now ELSE @,
              !.order = IF d.has_order THEN d.order ELSE @,
              !.updated_at = now]

\* order and updated_at written to one row (update_entity_meta, update_entity_order)
OrderRow(row, now, order) == [row EXCEPT !.order = order, !.updated_at = now]

RollbackKeepsPending(committed, pending) == pending

\* abort() before db.session.commit(): the session is removed at teardown and the
\* statements issued so far are rolled back
Rollback(committed, pending) == committed

\* ------------------------------------------------------------ GET /index
Range(s) == {s[i] : i \in DOMAIN s}

Perms(S) == {s \in [1..Cardinality(S) -> S] : \A a, b \in DOMAIN s : a # b => s[a] # s[b]}

\* query strings for updated_since: absent, empty, or an ISO timestamp with or
\* without a trailing Z
SinceInputs == [form : {"absent", "empty", "iso"}, ts : 0..MaxTime, z : BOOLEAN]
SortInputs == {"updated_at", "order"}

\* dt.datetime.fromisoformat(since.replace("Z", ""))
ParseSince(since) == since.ts

FilterSinceInclusive(rows, since) ==
    IF since.form = "iso"
    THEN {i \in DOMAIN rows : rows[i].updated_at >= ParseSince(since)}
    ELSE DOMAIN rows

\* if since: q = q.filter(IndexEntry.updated_at > ts)
FilterSince(rows, since) ==
    IF since.form = "iso"
    THEN {i \in DOMAIN rows : rows[i].updated_at > ParseSince(since)}
    ELSE DOMAIN rows

\* container_id ASC: NULL sorts last on PostgreSQL and first on SQLite
ContainerKey(c) == IF c = NULL THEN (IF ForeignKeys THEN MaxIds + 1 ELSE 0) ELSE c

\* row a must come before row b
Before(a, b, sort) ==
    IF sort = "order"
    THEN \/ ContainerKey(a.container_id) < ContainerKey(b.container_id)
         \/ /\ a.container_id = b.container_id
            /\ \/ a.order < b.order
               \/ a.order = b.order /\ a.updated_at > b.updated_at
    ELSE a.updated_at > b.updated_at

\* the id lists GET /index may answer with (rows that tie may come in any order)
get_index(since, sort) ==
    {s \in Perms(FilterSince(idx, since)) :
        \A a, b \in DOMAIN s : a < b => ~Before(idx[s[b]], idx[s[a]], sort)}

\* -------------------------------------------------------------- workers
Idle == [pc |-> "idle", id |-> NULL, kind |-> "list", container_id |-> NULL, order |-> 0,
         requested |-> FALSE, now |-> 0, dirty |-> FALSE]

\* ids a client can name: the ones a create has answered with
Issued == 1..(nextId - 1)

Response(op, id, status, supplied, dirty) ==
    [op |-> op, id |-> id, status |-> status, supplied |-> supplied, dirty |-> dirty]

\* workers are interchangeable: the second one is used only while the first is busy
Free(w) == req[w].pc = "idle" /\ (w = "w2" => req["w1"].pc # "idle")

\* a write by w (or by a DELETE, w = "") interleaves with every create in flight
Interleave(w) ==
    [v \in Workers |-> IF v # w /\ req[v].pc = "create"
                       THEN [req[v] EXCEPT !.dirty = TRUE] ELSE req[v]]

Finish(w) == [Interleave(w) EXCEPT ![w] = Idle]

InFlightCreates == Cardinality({w \in Workers : req[w].pc = "create"})

Bump(id, now) ==
    IF id \in DOMAIN idx THEN [stamp EXCEPT ![id] = IF now > @ THEN now ELSE @] ELSE stamp

\* ----------------------------------------------------------------- Init
Init ==
    /\ dialect \in Dialects
    /\ idx = <<>>
    /\ lc = <<>>
    /\ clock = 1
    /\ nextId = 1
    /\ req = [w \in Workers |-> Idle]
    /\ last = Response("init", NULL, 0, FALSE, FALSE)
    /\ stamp = [i \in Ids |-> 0]
    /\ nreq = 0
    /\ appended = {}

Tick ==
    /\ clock < MaxTime
    /\ clock' = clock + 1
    /\ UNCHANGED <<dialect, idx, lc, nextId, req, last, stamp, nreq, appended>>

\* ------------------------------------------------------- POST /entities
\* validation, now = utcnow(), effective_order
BeginCreate(w, kind, container_id, requested, requested_order) ==
    /\ Free(w)
    /\ IF kind \notin Kinds \/ (kind \in ContainerKinds /\ container_id # NULL)
       THEN /\ last' = Response("create_entity", NULL, 400, FALSE, FALSE)
            /\ UNCHANGED <<req, nreq>>
       ELSE LET effective_order == IF requested THEN requested_order
                                   ELSE _next_order_for_container(idx, container_id)
            IN  /\ effective_order <= MaxOrder
                /\ nextId + InFlightCreates <= MaxIds
                /\ nreq < MaxReqs
                /\ nreq' = nreq + 1
                /\ req' = [req EXCEPT ![w] =
                             [pc |-> "create", id |-> NULL, kind |-> kind, container_id |-> container_id,
                              order |-> effective_order, requested |-> requested,
                              now |-> clock, dirty |-> FALSE]]
                /\ UNCHANGED last
    /\ UNCHANGED <<dialect, idx, lc, clock, nextId, stamp, appended>>

\* the two inserts and the commit
CommitCreate(w, name, emoji, color, content_json) ==
    LET r == req[w]
        _id == nextId
    IN  /\ r.pc = "create"
        /\ IF \/ ForeignKeys /\ r.container_id # NULL /\ r.container_id \notin DOMAIN idx
              \/ OrderConflict(idx, r.container_id, r.order)
           THEN \* IntegrityError: nothing is committed
                /\ last' = Response("create_entity", NULL, 500, r.requested, r.dirty)
                /\ req' = [req EXCEPT ![w] = Idle]
                /\ UNCHANGED <<idx, lc, nextId, stamp, appended>>
           ELSE /\ idx' = (_id :> NewIndexEntry(r, name, emoji, color)) @@ idx
                /\ lc' = (_id :> NewListContent(r, content_json)) @@ lc
                /\ nextId' = nextId + 1
                /\ stamp' = [stamp EXCEPT ![_id] = r.now]
                /\ appended' = IF r.requested THEN appended ELSE appended \cup {_id}
                /\ last' = Response("create_entity", _id, 201, r.requested, r.dirty)
                /\ req' = Finish(w)
        /\ UNCHANGED <<dialect, clock, nreq>>

\* ----------------------------------------------- DELETE /entities/<id>
RECURSIVE Cascade(_, _)
\* ON DELETE CASCADE of index_entries.container_id, followed to the end
Cascade(rows, S) ==
    LET more == {i \in DOMAIN rows : rows[i].container_id \in S}
    IN  IF more \subseteq S THEN S ELSE Cascade(rows, S \cup more)

\* index_entries rows the DELETE statement removes
DeletedIndex(entity_id) ==
    IF entity_id \notin DOMAIN idx THEN {}
    ELSE IF ForeignKeys THEN Cascade(idx, {entity_id})
    ELSE {entity_id}

\* list_contents rows removed with them, through the two cascading foreign keys
DeletedContent(entity_id) ==
    IF ForeignKeys
    THEN {i \in DOMAIN lc : i \in DeletedIndex(entity_id)
                            \/ lc[i].container_id \in DeletedIndex(entity_id)}
    ELSE {}

Without(rows, gone) == [i \in DOMAIN rows \ gone |-> rows[i]]

delete_entity(entity_id) ==
    /\ entity_id \in Issued
    /\ nreq < MaxReqs
    /\ nreq' = nreq + 1
    /\ idx' = Without(idx, DeletedIndex(entity_id))
    /\ lc' = Without(lc, DeletedContent(entity_id))
    /\ appended' = appended \ DeletedIndex(entity_id)
    /\ stamp' = [i \in Ids |-> IF i \in DeletedIndex(entity_id) THEN 0 ELSE stamp[i]]
    /\ req' = Interleave("")
    /\ last' = Response("delete_entity", entity_id, 200, FALSE, FALSE)
    /\ UNCHANGED <<dialect, clock, nextId>>

\* ------------------------------------------------------------ updates
\* a PUT for entity_id arrives: now = utcnow() of the three PUT handlers
BeginUpdate(w, entity_id) ==
    /\ Free(w)
    /\ entity_id \in Issued
    /\ nreq < MaxReqs
    /\ nreq' = nreq + 1
    /\ req' = [req EXCEPT ![w] = [Idle EXCEPT !.pc = "update", !.id = entity_id,
                                              !.now = clock]]
    /\ UNCHANGED <<dialect, idx, lc, clock, nextId, last, stamp, appended>>

\* PUT /content/<entity_id>
update_content(w, entity_id, has_content, content_json, has_order, order) ==
    LET now == req[w].now IN
    /\ req[w].pc = "update"
    /\ req[w].id = entity_id
    /\ IF ~has_content
       THEN /\ last' = Response("update_content", NULL, 400, FALSE, FALSE)
            /\ req' = [req EXCEPT ![w] = Idle]
            /\ UNCHANGED <<idx, lc, stamp, appended>>
       ELSE IF entity_id \notin DOMAIN lc
       THEN /\ last' = Response("update_content", entity_id, 404, FALSE, FALSE)
            /\ req' = [req EXCEPT ![w] = Idle]
            /\ UNCHANGED <<idx, lc, stamp, appended>>
       ELSE /\ lc' = [lc EXCEPT ![entity_id] =
                         ContentRow(lc[entity_id], now, content_json, has_order, order)]
            /\ idx' = IF entity_id \in DOMAIN idx
                      THEN [idx EXCEPT ![entity_id] =
                               ContentIndexRow(idx[entity_id], now, has_order, order)]
                      ELSE idx
            /\ stamp' = Bump(entity_id, now)
            /\ appended' = IF has_order THEN appended \ {entity_id} ELSE appended
            /\ last' = Response("update_content", entity_id, 200, has_order, FALSE)
            /\ req' = Finish(w)
    /\ UNCHANGED <<dialect, clock, nextId, nreq>>

\* PUT /entities/<entity_id>
update_entity_meta(w, entity_id, d) ==
    LET now == req[w].now
        \* the list_contents write comes first, before the row count is looked at
        pending == IF d.has_order /\ entity_id \in DOMAIN lc
                   THEN [lc EXCEPT ![entity_id] = OrderRow(lc[entity_id], now, d.order)]
                   ELSE lc
        changed == entity_id \in DOMAIN idx
    IN
    /\ req[w].pc = "update"
    /\ req[w].id = entity_id
    /\ IF ~changed
       THEN /\ lc' = Rollback(lc, pending)
            /\ last' = Response("update_entity_meta", entity_id, 404, d.has_order, FALSE)
            /\ req' = [req EXCEPT ![w] = Idle]
            /\ UNCHANGED <<idx, stamp, appended>>
       ELSE /\ lc' = pending
            /\ idx' = [idx EXCEPT ![entity_id] = MetaRow(idx[entity_id], now, d)]
            /\ stamp' = Bump(entity_id, now)
            /\ appended' = IF d.has_order THEN appended \ {entity_id} ELSE appended
            /\ last' = Response("update_entity_meta", entity_id, 200, d.has_order, FALSE)
            /\ req' = Finish(w)
    /\ UNCHANGED <<dialect, clock, nextId, nreq>>

\* PUT /entities/<entity_id>/order
update_entity_order(w, entity_id, has_order, new_order) ==
    LET now == req[w].now
        changed == entity_id \in DOMAIN idx
    IN
    /\ req[w].pc = "update"
    /\ req[w].id = entity_id
    /\ IF ~has_order
       THEN /\ last' = Response("update_entity_order", NULL, 400, FALSE, FALSE)
            /\ req' = [req EXCEPT ![w] = Idle]
            /\ UNCHANGED <<idx, lc, stamp, appended>>
       ELSE IF ~changed
       THEN /\ last' = Response("update_entity_order", entity_id, 404, TRUE, FALSE)
            /\ req' = [req EXCEPT ![w] = Idle]
            /\ UNCHANGED <<idx, lc, stamp, appended>>
       ELSE /\ idx' = [idx EXCEPT ![entity_id] = OrderRow(idx[entity_id], now, new_order)]
            /\ lc' = IF entity_id \in DOMAIN lc
                     THEN [lc EXCEPT ![entity_id] = OrderRow(lc[entity_id], now, new_order)]
                     ELSE lc
            /\ stamp' = Bump(entity_id, now)
            /\ appended' = appended \ {entity_id}
            /\ last' = Response("update_entity_order", entity_id, 200, TRUE, FALSE)
            /\ req' = Finish(w)
    /\ UNCHANGED <<dialect, clock, nextId, nreq>>

\* ----------------------------------------------------------------- Next
CreateBegins(w) ==
    \E kind \in KindInputs, c \in {NULL} \cup Issued,
       requested \in BOOLEAN, o \in OrderInputs :
       BeginCreate(w, kind, c, requested, o)

CreateCommits(w) == CommitCreate(w, "a", NoEmoji, DefaultColor, EmptyContent)

ContentUpdate(w, entity_id, has_order, o) ==
    \E has_content \in BOOLEAN : update_content(w, entity_id, has_content, "{x}", has_order, o)

Next ==
    \/ Tick
    \/ \E w \in Workers : CreateBegins(w)
    \/ \E w \in Workers : CreateCommits(w)
    \/ \E entity_id \in Ids : delete_entity(entity_id)
    \/ \E w \in Workers, entity_id \in Ids : BeginUpdate(w, entity_id)
    \/ \E w \in Workers, entity_id \in Ids, has_order \in BOOLEAN, o \in OrderInputs :
          ContentUpdate(w, entity_id, has_order, o)
    \/ \E w \in Workers, entity_id \in Ids, d \in MetaBodies :
          update_entity_meta(w, entity_id, d)
    \/ \E w \in Workers, entity_id \in Ids, has_order \in BOOLEAN, o \in OrderInputs :
          update_entity_order(w, entity_id, has_order, o)

Spec == Init /\ [][Next]_vars

\* ================================================================ claims
SiblingOrders(rows, c) ==
    {rows[i].order : i \in {j \in DOMAIN rows : rows[j].container_id = c}}

Since(T) == [form |-> "iso", ts |-> T, z |-> FALSE]

\* C1: every id with both an index_entries row and a list_contents row has the
\* same order and the same container_id in the two rows.
C1_DuplicatedState ==
    \A id \in DOMAIN idx \cap DOMAIN lc :
        /\ idx[id].order = lc[id].order
        /\ idx[id].container_id = lc[id].container_id

\* an update_content with an order has just rewritten the order of a stored pair
C1_Witness ==
    /\ last.op = "update_content" /\ last.status = 200 /\ last.supplied
    /\ last.id \in DOMAIN idx \cap DOMAIN lc
    /\ last.id \notin appended
    /\ idx[last.id].order = MaxOrder /\ lc[last.id].order = MaxOrder

KindContainerOk(rows) ==
    \A i \in DOMAIN rows :
        /\ rows[i].kind \in ContainerKinds => rows[i].container_id = NULL
        /\ rows[i].kind = "list" =>
              \/ rows[i].container_id = NULL
              \/ /\ rows[i].container_id \in DOMAIN rows
                 /\ rows[rows[i].container_id].kind \in ContainerKinds

\* C4: a project or process has container_id NULL, and a list has container_id
\* NULL or the id of a stored project or process; a create of a project or
\* process with a container_id answers 400 and inserts nothing.
C4_KindContainer ==
    [][/\ KindContainerOk(idx')
       /\ \A w \in Workers, kind \in ContainerKinds, c \in Ids,
             r \in BOOLEAN, o \in OrderInputs :
             BeginCreate(w, kind, c, r, o) =>
                last'.status = 400 /\ idx' = idx /\ lc' = lc /\ req' = req
      ]_vars

\* C5: a create without an order, with no other request's write between its
\* read and its commit, stores order 1 + max(order of the rows with the same
\* container_id), or 0 when there is none; neither a create nor a delete changes
\* the order of a row that stays.
C5_AppendOrder ==
    [][/\ \A w \in Workers :
             (CreateCommits(w) /\ ~req[w].requested /\ ~req[w].dirty) =>
                /\ last'.status = 201 => last'.id \in DOMAIN idx'
                /\ last'.status = 201 =>
                      idx'[last'.id].order =
                         IF SiblingOrders(idx, req[w].container_id) = {} THEN 0
                         ELSE 1 + Max(SiblingOrders(idx, req[w].container_id))
       /\ ((\E w \in Workers : CreateCommits(w)) \/ (\E e \in Ids : delete_entity(e))) =>
             /\ \A i \in DOMAIN idx \cap DOMAIN idx' : idx'[i].order = idx[i].order
             /\ \A i \in DOMAIN lc \cap DOMAIN lc' : lc'[i].order = lc[i].order
      ]_vars

\* an uninterleaved create has just been appended after a sibling
C5_Witness ==
    /\ last.op = "create_entity" /\ last.status = 201
    /\ ~last.supplied /\ ~last.dirty
    /\ last.id \in DOMAIN idx
    /\ idx[last.id].order = 1
    /\ \E i \in DOMAIN idx : i # last.id /\ idx[i].container_id = idx[last.id].container_id
                             /\ idx[i].order = 0

\* C6: after a successful create or update of id with timestamp t, and until id
\* is deleted, GET /index?updated_since=T lists id for every T earlier than t.
C6_ChangeFeed ==
    \A id \in DOMAIN idx : \A T \in 0..MaxTime :
        T < stamp[id] => \A s \in get_index(Since(T), "updated_at") : id \in Range(s)

\* C7: update_content changes, of the index_entries row of id, only updated_at,
\* and order when an order is sent; it changes no row of another id and adds or
\* removes none; an order that is sent is stored in both rows of id.
C7_UpdateContentFrame ==
    [][\A w \in Workers, e \in Ids, ho \in BOOLEAN, o \in OrderInputs :
          ContentUpdate(w, e, ho, o) =>
             /\ DOMAIN idx' = DOMAIN idx /\ DOMAIN lc' = DOMAIN lc
             /\ \A i \in DOMAIN idx \ {e} : idx'[i] = idx[i]
             /\ \A i \in DOMAIN lc \ {e} : lc'[i] = lc[i]
             /\ e \in DOMAIN idx =>
                   /\ idx'[e] = [idx[e] EXCEPT !.updated_at = idx'[e].updated_at,
                                               !.order = idx'[e].order]
                   /\ idx'[e].order = IF ho /\ last'.status = 200 THEN o ELSE idx[e].order
             /\ e \in DOMAIN lc =>
                   /\ lc'[e].container_id = lc[e].container_id
                   /\ lc'[e].order = IF ho /\ last'.status = 200 THEN o ELSE lc[e].order
      ]_vars

\* a content-only update has moved updated_at and left opened_at behind
C7_Witness ==
    /\ last.op = "update_content" /\ last.status = 200 /\ ~last.supplied
    /\ last.id \in DOMAIN idx \cap DOMAIN lc
    /\ lc[last.id].content_json = "{x}"
    /\ idx[last.id].updated_at > idx[last.id].opened_at

\* C8: GET /index?updated_since=T answers with exactly the rows whose
\* updated_at is greater than T, each once; without updated_since, with all rows.
C8_UpdatedSince ==
    \A since \in SinceInputs, sort \in SortInputs :
        LET expect == IF since.form = "iso"
                      THEN {i \in DOMAIN idx : idx[i].updated_at > since.ts}
                      ELSE DOMAIN idx
        IN  /\ get_index(since, sort) # {}
            /\ \A s \in get_index(since, sort) :
                  Range(s) = expect /\ Len(s) = Cardinality(expect)

\* one row lies on the watermark and is left out, another lies after it and is listed
C8_Witness ==
    \E i, j \in DOMAIN idx :
        /\ idx[i].updated_at = 1 /\ idx[j].updated_at = 2
        /\ get_index(Since(1), "updated_at") = {<<j>>}

\* C9: update_entity_meta and update_entity_order on an id without an
\* index_entries row answer 404 and leave every stored row as it was, also
\* when the list_contents write was issued before the row count was looked at.
C9_NotFoundNoEffect ==
    [][/\ \A w \in Workers, e \in Ids, d \in MetaBodies :
             (update_entity_meta(w, e, d) /\ e \notin DOMAIN idx) =>
                last'.status = 404 /\ idx' = idx /\ lc' = lc
       /\ \A w \in Workers, e \in Ids, o \in OrderInputs :
             (update_entity_order(w, e, TRUE, o) /\ e \notin DOMAIN idx) =>
                last'.status = 404 /\ idx' = idx /\ lc' = lc
      ]_vars

\* a metadata update with an order was refused although the id still has a
\* list_contents row, which its first statement had matched
C9_Witness ==
    /\ last.op = "update_entity_meta" /\ last.status = 404 /\ last.supplied
    /\ last.id \in DOMAIN lc
    /\ last.id \notin DOMAIN idx

\* C10: when an appending create commits an order that a sibling already got by
\* appending (both read the max before either committed), the create still
\* succeeds, its id gets both rows with that order and container_id, and the
\* rows stored before stay as they were.
C10_RaceKeepsRows ==
    [][\A w \in Workers :
          (/\ CreateCommits(w)
           /\ ~req[w].requested
           /\ \E i \in appended : /\ idx[i].container_id = req[w].container_id
                                  /\ idx[i].order = req[w].order) =>
             /\ last'.status = 201
             /\ last'.id \notin DOMAIN idx
             /\ last'.id \in DOMAIN idx' \cap DOMAIN lc'
             /\ idx'[last'.id].order = req[w].order
             /\ lc'[last'.id].order = req[w].order
             /\ idx'[last'.id].container_id = req[w].container_id
             /\ lc'[last'.id].container_id = req[w].container_id
             /\ \A i \in DOMAIN idx : idx'[i] = idx[i]
             /\ \A i \in DOMAIN lc : lc'[i] = lc[i]
      ]_vars

\* two appended siblings hold the same order, the second committed after an interleaved write
C10_Witness ==
    /\ last.op = "create_entity" /\ last.status = 201 /\ ~last.supplied /\ last.dirty
    /\ \E a \in appended :
          /\ a # last.id
          /\ last.id \in appended
          /\ {a, last.id} \subseteq DOMAIN idx \cap DOMAIN lc
          /\ idx[a].container_id = idx[last.id].container_id
          /\ idx[a].order = idx[last.id].order
          /\ lc[a].order = lc[last.id].order
====
